---------------------------- MODULE Spec2Model ----------------------------
(***************************************************************************)
(* Model of listener.c: the UDP listener loop (main), the datagram         *)
(* processor (process_datagram), the field extractor (xml_get_field) and   *)
(* the sound player (play_sound, SOUND_MODE_WAV).                          *)
(*                                                                         *)
(* Bytes are naturals 0..255.  A C array is a sequence; the C index i is   *)
(* the sequence position i+1.  A C string is the bytes of an array before  *)
(* its first 0 byte.                                                       *)
(***************************************************************************)
EXTENDS Integers, Sequences, FiniteSets, TLC

VARIABLES
    pc,        \* position of main: "start", "exit", "recvfrom", "process"
    buf,       \* main's static receive buffer: the bytes written so far
               \* (every byte beyond Len(buf) still holds its initial 0)
    n,         \* return value of the last recvfrom
    src,       \* sender address filled in by the last recvfrom
    fields,    \* the eight local field buffers of the last process_datagram
    rets,      \* what its eight xml_get_field calls returned
    line,      \* the arguments of its log-line printf, as printed
    events,    \* what the last process_datagram call did, in order
    received,  \* the datagrams recvfrom delivered, in order
    processed, \* what each process_datagram call was given, and whether
               \* it called play_sound
    xin,       \* arguments of one xml_get_field call
    xout,      \* its result
    xpc        \* "call" before it ran, "done" after, "idle" when unused

vars == <<pc, buf, n, src, fields, rets, line, events, received, processed,
          xin, xout, xpc>>

mainvars == <<pc, buf, n, src, fields, rets, line, events, received, processed>>
xvars == <<xin, xout, xpc>>

(***************************************************************************)
(* Bounds of the model                                                     *)
(***************************************************************************)
MaxRecv == 2     \* datagrams delivered in one run of the loop
MaxPad  == 70    \* longest run of whitespace around an inner text

(***************************************************************************)
(* Byte strings                                                            *)
(***************************************************************************)
S_contactinfo == <<60,99,111,110,116,97,99,116,105,110,102,111,62>>  \* "<contactinfo>"
S_true        == <<116,114,117,101>>                                 \* "true"
S_dash        == <<45>>                                              \* "-"
T_call   == <<99,97,108,108>>
T_band   == <<98,97,110,100>>
T_mode   == <<109,111,100,101>>
T_mult1  == <<109,117,108,116,49>>
T_mult2  == <<109,117,108,116,50>>
T_mult3  == <<109,117,108,116,51>>
T_newqso == <<110,101,119,113,115,111>>
T_xqso   == <<120,113,115,111>>

WS == {32, 9, 13, 10}    \* ' ', '\t', '\r', '\n'

Min(S) == CHOOSE x \in S : \A y \in S : x <= y
Max(S) == CHOOSE x \in S : \A y \in S : x >= y

\* an array of k zero bytes (char x[k] = "")
Zeros(k) == [i \in 1..k |-> 0]

\* the C string held in array b: the bytes before its first 0
CStr(b) ==
    LET z == {k \in 1..Len(b) : b[k] = 0}
    IN  IF z = {} THEN b ELSE SubSeq(b, 1, Min(z) - 1)

(***************************************************************************)
(* C library                                                               *)
(***************************************************************************)
\* read of b[i]; a read outside the array yields 0 in the model, and is
\* reported through the access sets kept by xml_get_field
peek(b, i) == IF i \in 0..(Len(b) - 1) THEN b[i + 1] ELSE 0

\* write b[i] = v
poke(b, i, v) == IF i \in 0..(Len(b) - 1) THEN [b EXCEPT ![i + 1] = v] ELSE b

\* variant: a comparison that does not fold case
tolower_cs(c) == c

tolower(c) == IF c \in 65..90 THEN c + 32 ELSE c

RECURSIVE strncasecmp_from(_, _, _, _, _)
strncasecmp_from(s, p, t, cnt, k) ==
    IF k = cnt THEN 0
    ELSE LET c1 == tolower(peek(s, p + k))
             c2 == tolower(peek(t, k))
         IN  IF c1 # c2 THEN c1 - c2
             ELSE IF c1 = 0 THEN 0
             ELSE strncasecmp_from(s, p, t, cnt, k + 1)

\* strncasecmp(s + p, t, cnt)
strncasecmp(s, p, t, cnt) == strncasecmp_from(s, p, t, cnt, 0)

\* strcasecmp(s, t): both are C strings
strcasecmp(s, t) ==
    strncasecmp_from(s, 0, t, Max({Len(s), Len(t)}) + 1, 0)

RECURSIVE strlen(_, _)
\* strlen(b + p)
strlen(b, p) == IF peek(b, p) = 0 THEN 0 ELSE 1 + strlen(b, p + 1)

\* memcpy(dst, s + from, cnt) / memmove(dst, s + from, cnt)
memcpy(dst, s, from, cnt) ==
    << >> \o [i \in 1..Len(dst) |-> IF i <= cnt THEN peek(s, from + i - 1) ELSE dst[i]]

(***************************************************************************)
(* xml_get_field                                                           *)
(***************************************************************************)
open_tag(tag)  == <<60>> \o tag \o <<62>>         \* "<%s>"
close_tag(tag) == <<60, 47>> \o tag \o <<62>>     \* "</%s>"

RECURSIVE find_tag(_, _, _)
\* for (p = xml + from; *p; p++) if (strncasecmp(p, t, strlen(t)) == 0) ...
\* the index of the first match, -1 for NULL
find_tag(xml, from, t) ==
    IF peek(xml, from) = 0 THEN -1
    ELSE IF strncasecmp(xml, from, t, Len(t)) = 0 THEN from
    ELSE find_tag(xml, from + 1, t)

\* variant: the closing-tag search restarted at the beginning of xml
find_close_from_xml(xml, start, tag) == find_tag(xml, 0, close_tag(tag))

\* the closing-tag search, which starts at start
find_close(xml, start, tag) == find_tag(xml, start, close_tag(tag))

\* variant: the clamp with > for >=
clamp_len_off_by_one(len, buflen) == IF len > buflen THEN buflen - 1 ELSE len

\* if (len >= buflen) len = buflen - 1;
clamp_len(len, buflen) == IF len >= buflen THEN buflen - 1 ELSE len

RECURSIVE skip_ws(_, _)
\* while (*p is a whitespace byte) p++;
skip_ws(b, p) == IF peek(b, p) \in WS THEN skip_ws(b, p + 1) ELSE p

\* the leading-whitespace trim; st = [buf, acc, wr]
trim_leading(st) ==
    LET p   == skip_ws(st.buf, 0)
        cnt == strlen(st.buf, p) + 1
    IN  IF p = 0
        THEN [st EXCEPT !.acc = @ \cup {0}]
        ELSE [buf |-> memcpy(st.buf, st.buf, p, cnt),
              acc |-> st.acc \cup (0..(p + cnt - 1)),
              wr  |-> st.wr \cup (0..(cnt - 1))]

RECURSIVE trim_trailing_from(_, _)
\* while (e >= buf && *e is a whitespace byte) *e-- = '\0';
trim_trailing_from(st, e) ==
    IF e >= 0 /\ peek(st.buf, e) \in WS
    THEN trim_trailing_from([buf |-> poke(st.buf, e, 0),
                             acc |-> st.acc \cup {e},
                             wr  |-> st.wr \cup {e}], e - 1)
    ELSE [st EXCEPT !.acc = @ \cup (IF e >= 0 THEN {e} ELSE {})]

\* the trailing-whitespace trim, from e = buf + strlen(buf) - 1; for an empty
\* string e is one before the buffer, e >= buf is false and *e is not read
trim_trailing(st) ==
    LET l == strlen(st.buf, 0)
    IN  trim_trailing_from([st EXCEPT !.acc = @ \cup (0..l)], l - 1)

\* xml_get_field(xml, tag, buf, buflen): the value returned, the destination
\* afterwards, and the destination indices it read or wrote (acc) and
\* wrote (wr)
xml_get_field(xml, tag, dst, buflen) ==
    LET absent == [ret |-> 0, buf |-> dst, acc |-> {}, wr |-> {}]
        o == find_tag(xml, 0, open_tag(tag))
    IN  IF o = -1 THEN absent
        ELSE
        LET start == o + Len(open_tag(tag))
            end   == find_close(xml, start, tag)
        IN  IF end = -1 THEN absent
            ELSE
            LET len == clamp_len(end - start, buflen)
                b1  == poke(memcpy(dst, xml, start, len), len, 0)
                st1 == [buf |-> b1, acc |-> 0..len, wr |-> 0..len]
                st3 == trim_trailing(trim_leading(st1))
            IN  [ret |-> 1, buf |-> st3.buf, acc |-> st3.acc, wr |-> st3.wr]


\* x[0] ? x : "-"
render(x) == IF peek(x, 0) # 0 THEN CStr(x) ELSE S_dash

(***************************************************************************)
(* The eight extractions of process_datagram: field, tag, capacity         *)
(***************************************************************************)
FieldNames == <<"call", "band", "mode", "mult1", "mult2", "mult3", "newqso", "xqso">>

TagOf == [call |-> T_call, band |-> T_band, mode |-> T_mode,
          mult1 |-> T_mult1, mult2 |-> T_mult2, mult3 |-> T_mult3,
          newqso |-> T_newqso, xqso |-> T_xqso]

\* char call[64], band[32], mode[16], mult1[64], mult2[64], mult3[64],
\* newqso[16], xqso[16]
CapOf == [call |-> 64, band |-> 32, mode |-> 16,
          mult1 |-> 64, mult2 |-> 64, mult3 |-> 64,
          newqso |-> 16, xqso |-> 16]

FieldSet == {FieldNames[i] : i \in 1..Len(FieldNames)}

(***************************************************************************)
(* Inputs of the extractor: documents around one tag                        *)
(***************************************************************************)
S_NY     == <<78,89>>                     \* "NY"
S_a_b    == <<97,32,98>>                  \* "a b"
S_hello  == <<104,101,108,108,111,32>>    \* "hello "
S_abc20  == <<97,98,99,100,101,102,103,104,105,106,107,108,109,110,111,112,113,114,115,116>>
S_abc80  == S_abc20 \o S_abc20 \o S_abc20 \o S_abc20

upcase(c) == IF c \in 97..122 THEN c - 32 ELSE c
Upper(s)  == [i \in 1..Len(s) |-> upcase(s[i])]
Mixed(s)  == [i \in 1..Len(s) |-> IF i % 2 = 1 THEN upcase(s[i]) ELSE s[i]]

\* k whitespace bytes: space, tab, CR, LF in turn
Pad(k) == [i \in 1..k |-> <<32, 9, 13, 10>>[((i - 1) % 4) + 1]]

PadLens == {0, 1, 15, 20, MaxPad}
Cores   == {<< >>, S_NY, S_true, S_a_b, S_abc20, S_abc80}
\* the inner text: a whitespace, then core c, then b whitespace
Inner(a, c, b) == Pad(a) \o c \o Pad(b)

\* how the tag is written around inner text v
Shapes == {"lower", "mixed", "upper", "noclose", "noopen"}

Body(tag, shape, v) ==
    CASE shape = "lower"   -> open_tag(tag) \o v \o close_tag(tag)
      [] shape = "mixed"   -> open_tag(Mixed(tag)) \o v \o close_tag(Upper(tag))
      [] shape = "upper"   -> open_tag(Upper(tag)) \o v \o close_tag(tag)
      [] shape = "noclose" -> open_tag(tag) \o v
      [] shape = "noopen"  -> v \o close_tag(tag)

\* what precedes it: nothing, other text, or a closing tag
Leads == {"none", "text", "close"}

Prefix(tag, lead) ==
    CASE lead = "none"  -> << >>
      [] lead = "text"  -> S_hello
      [] lead = "close" -> close_tag(tag)

XInput(f, lead, shape, a, c, b) ==
    [xml    |-> Prefix(TagOf[f], lead) \o Body(TagOf[f], shape, Inner(a, c, b)) \o <<0>>,
     tag    |-> TagOf[f],
     buflen |-> CapOf[f],
     buf    |-> Zeros(CapOf[f])]

NoCall   == [xml |-> <<0>>, tag |-> << >>, buflen |-> 0, buf |-> << >>]
NoResult == [ret |-> 0, buf |-> << >>, acc |-> {}, wr |-> {}]

(***************************************************************************)
(* Specification of one xml_get_field call                                 *)
(***************************************************************************)
MainIdle ==
    /\ pc = "start"
    /\ buf = << >>
    /\ n = 0
    /\ src = 0
    /\ fields = [f \in FieldSet |-> Zeros(CapOf[f])]
    /\ rets = [f \in FieldSet |-> 0]
    /\ line = << >>
    /\ events = << >>
    /\ received = << >>
    /\ processed = << >>

XInit ==
    /\ MainIdle
    /\ \E f \in FieldSet, lead \in Leads, shape \in Shapes,
          a \in PadLens, c \in Cores, b \in PadLens :
            xin = XInput(f, lead, shape, a, c, b)
    /\ xout = NoResult
    /\ xpc = "call"

XCall ==
    /\ xpc = "call"
    /\ xout' = xml_get_field(xin.xml, xin.tag, xin.buf, xin.buflen)
    /\ xpc' = "done"
    /\ UNCHANGED <<xin, mainvars>>

XNext == XCall

SpecX == XInit /\ [][XNext]_vars

(***************************************************************************)
(* play_sound (SOUND_MODE_WAV), print_timestamp, process_datagram          *)
(***************************************************************************)
\* system(cmd) returns non-zero when ok is FALSE: a warning on stderr
play_sound(ok) == IF ok THEN <<"play_sound">> ELSE <<"play_sound", "warning">>

print_timestamp == <<"timestamp">>

\* variant: the marker check left out
found_ci_always(b, len) == TRUE

\* variant: the scan bounded by i < len, comparing past the datagram's end
found_ci_overread(b, len) ==
    \E i \in 0..(len - 1) : strncasecmp(b, i, S_contactinfo, 13) = 0

\* for (i = 0; i + 13 <= len; i++) if (strncasecmp(buf + i, "<contactinfo>", 13) == 0)
found_ci(b, len) ==
    \E i \in 0..(len - 13) : strncasecmp(b, i, S_contactinfo, 13) = 0

\* variant: && for ||
has_mult_all(fl) ==
    peek(fl.mult1, 0) # 0 /\ peek(fl.mult2, 0) # 0 /\ peek(fl.mult3, 0) # 0

has_mult(fl) ==
    peek(fl.mult1, 0) # 0 \/ peek(fl.mult2, 0) # 0 \/ peek(fl.mult3, 0) # 0

is_new(fl) == strcasecmp(fl.newqso, S_true) = 0

\* printf's %-ws: s, then spaces up to width w
pad(s, w) == IF Len(s) >= w THEN s ELSE s \o [i \in 1..(w - Len(s)) |-> 32]

\* the arguments of the log-line printf, as it prints them
log_line(a, fl) ==
    [src    |-> a,
     call   |-> pad(render(fl.call), 8),
     band   |-> pad(render(fl.band), 3),
     mode   |-> pad(render(fl.mode), 3),
     mult1  |-> pad(render(fl.mult1), 2),
     mult2  |-> pad(render(fl.mult2), 2),
     mult3  |-> pad(render(fl.mult3), 2),
     newqso |-> pad(render(fl.newqso), 5)]

\* variant: a failed play_sound ends the function
trigger_tail_return_on_failure(trig, playOk) ==
    IF ~trig THEN <<"newline">>
    ELSE IF playOk THEN <<"marker", "play_sound", "newline">>
    ELSE <<"marker", "play_sound", "warning">>

\* what follows the log-line printf: the marker and the sound when the
\* trigger holds, then the newline
trigger_tail(trig, playOk) ==
    (IF trig THEN <<"marker">> \o play_sound(playOk) ELSE << >>) \o <<"newline">>

NoFields == [f \in FieldSet |-> Zeros(CapOf[f])]
NoRets   == [f \in FieldSet |-> 0]

\* xml = malloc(len + 1); memcpy(xml, buf, len); xml[len] = '\0';
copy_nul(b, len) ==
    (IF len <= Len(b) THEN SubSeq(b, 1, len) ELSE b \o Zeros(len - Len(b))) \o <<0>>

\* the eight xml_get_field calls on the NUL-terminated copy xml
extract(xml) ==
    [call   |-> xml_get_field(xml, T_call,   Zeros(CapOf.call),   CapOf.call),
     band   |-> xml_get_field(xml, T_band,   Zeros(CapOf.band),   CapOf.band),
     mode   |-> xml_get_field(xml, T_mode,   Zeros(CapOf.mode),   CapOf.mode),
     mult1  |-> xml_get_field(xml, T_mult1,  Zeros(CapOf.mult1),  CapOf.mult1),
     mult2  |-> xml_get_field(xml, T_mult2,  Zeros(CapOf.mult2),  CapOf.mult2),
     mult3  |-> xml_get_field(xml, T_mult3,  Zeros(CapOf.mult3),  CapOf.mult3),
     newqso |-> xml_get_field(xml, T_newqso, Zeros(CapOf.newqso), CapOf.newqso),
     xqso   |-> xml_get_field(xml, T_xqso,   Zeros(CapOf.xqso),   CapOf.xqso)]

\* process_datagram(b, len, a): the runs it can make, one for each answer of
\* malloc and of system()
process_datagram(b, len, a) ==
    LET none == [events |-> << >>, fields |-> NoFields, rets |-> NoRets, line |-> << >>]
    IN  IF ~found_ci(b, len) THEN {none}
        ELSE
        LET xml  == copy_nul(b, len)
            got  == extract(xml)
            fl   == [f \in FieldSet |-> got[f].buf]
            trig == has_mult(fl) /\ is_new(fl)
            run(playOk) ==
                [events |-> [i \in 1..Len(FieldNames) |-> "xml_get_field"]
                            \o print_timestamp \o <<"printf">>
                            \o trigger_tail(trig, playOk),
                 fields |-> fl,
                 rets   |-> [f \in FieldSet |-> got[f].ret],
                 line   |-> log_line(a, fl)]
        IN  {[none EXCEPT !.events = <<"perror">>]}
            \cup {run(playOk) : playOk \in BOOLEAN}

(***************************************************************************)
(* Datagrams the network delivers                                          *)
(***************************************************************************)
S_cut   == <<60,99,111,110,116,97,99,116,105,110,102>>    \* "<contactinf"
S_false == <<102,97,108,115,101>>                          \* "false"
S_10    == <<32,49,48,32>>                                 \* " 10 "

Element(tag, v) == open_tag(tag) \o v \o close_tag(tag)

\* the kinds of datagram: the marker cut short, fields without the marker,
\* the marker alone, and the marker with fields
Kinds == {"cut", "fields", "marker", "mult", "mixed", "empty", "false", "nul"}

Datagram(k) ==
    CASE k = "cut"    -> S_cut
      [] k = "fields" -> S_hello
                         \o Element(T_mult1, S_NY) \o Element(T_newqso, S_true)
      [] k = "marker" -> S_contactinfo
      [] k = "mult"   -> S_contactinfo
                         \o Element(T_mult1, S_NY) \o Element(T_newqso, S_true)
      [] k = "mixed"  -> Mixed(S_contactinfo)
                         \o open_tag(Mixed(T_mult2)) \o S_10 \o close_tag(Upper(T_mult2))
                         \o open_tag(Upper(T_newqso)) \o Upper(S_true) \o close_tag(T_newqso)
      [] k = "empty"  -> S_contactinfo
                         \o Element(T_mult3, << >>) \o Element(T_newqso, S_true)
      [] k = "false"  -> S_contactinfo
                         \o Element(T_mult1, S_NY) \o Element(T_newqso, S_false)
      [] k = "nul"    -> S_contactinfo \o <<0>>
                         \o Element(T_mult1, S_NY) \o Element(T_newqso, S_true)

\* the senders a datagram of kind k comes from
Senders(k) == IF k = "mult" THEN {"192.168.1.10", "192.168.1.11"} ELSE {"192.168.1.10"}

(***************************************************************************)
(* main                                                                    *)
(***************************************************************************)
Init ==
    /\ MainIdle
    /\ xin = NoCall
    /\ xout = NoResult
    /\ xpc = "idle"

\* socket() and bind(): either failure ends the program
Setup ==
    /\ pc = "start"
    /\ \E sockOk \in BOOLEAN, bindOk \in BOOLEAN :
          pc' = IF sockOk /\ bindOk THEN "recvfrom" ELSE "exit"
    /\ UNCHANGED <<buf, n, src, fields, rets, line, events, received, processed, xvars>>

\* variant: the continue left out
next_pc_no_continue(r) == "process"

\* if (n < 0) { perror("recvfrom"); continue; }
next_pc(r) == IF r < 0 THEN "recvfrom" ELSE "process"

\* recvfrom delivers a datagram into the static buffer
RecvOk ==
    /\ pc = "recvfrom"
    /\ Len(received) < MaxRecv
    /\ \E k \in Kinds : \E a \in Senders(k) :
          LET d == Datagram(k)
          IN  /\ buf' = d \o SubSeq(buf, Len(d) + 1, Len(buf))
              /\ n' = Len(d)
              /\ src' = a
              /\ received' = Append(received, [data |-> d, src |-> a])
    /\ pc' = next_pc(n')
    /\ UNCHANGED <<fields, rets, line, events, processed, xvars>>

\* recvfrom fails
RecvFail ==
    /\ pc = "recvfrom"
    /\ n' = -1
    /\ pc' = next_pc(n')
    /\ UNCHANGED <<buf, src, fields, rets, line, events, received, processed, xvars>>

Count(es, e) == Cardinality({i \in 1..Len(es) : es[i] = e})

\* process_datagram(buf, (size_t)n, &src), then back to the top of the loop
ProcessDatagram ==
    /\ pc = "process"
    /\ \E r \in process_datagram(buf, n, src) :
              /\ fields' = r.fields
              /\ rets' = r.rets
              /\ line' = r.line
              /\ events' = r.events
              /\ processed' = Append(processed,
                                [data   |-> SubSeq(buf, 1, n), src |-> src,
                                 events |-> r.events])
    /\ pc' = "recvfrom"
    /\ UNCHANGED <<buf, n, src, received, xvars>>

Next == Setup \/ RecvOk \/ RecvFail \/ ProcessDatagram

Spec == Init /\ [][Next]_vars

(***************************************************************************)
(* What a document contains, stated on its bytes                           *)
(***************************************************************************)
Fold(c) == IF c >= 65 /\ c <= 90 THEN c + 32 ELSE c

\* pat occurs in d at offset i, in any letter case
OccursAt(d, i, pat) ==
    /\ i + Len(pat) <= Len(d)
    /\ \A k \in 1..Len(pat) : Fold(d[i + k]) = Fold(pat[k])

Occurrences(d, pat, from) == {i \in from..(Len(d) - 1) : OccursAt(d, i, pat)}

Opens(d, tag) == Occurrences(d, <<60>> \o tag \o <<62>>, 0)

\* the offset just after the first opening tag
AfterOpen(d, tag) == Min(Opens(d, tag)) + Len(tag) + 2

Closes(d, tag) == Occurrences(d, <<60, 47>> \o tag \o <<62>>, AfterOpen(d, tag))

\* d holds <tag>value</tag>
HasPair(d, tag) == Opens(d, tag) # {} /\ Closes(d, tag) # {}

\* the text between the first opening tag and the closing tag that follows
InnerText(d, tag) == SubSeq(d, AfterOpen(d, tag) + 1, Min(Closes(d, tag)))

\* v without its leading and trailing whitespace
Trimmed(v) ==
    LET keep == {k \in 1..Len(v) : v[k] \notin WS}
    IN  IF keep = {} THEN << >> ELSE SubSeq(v, Min(keep), Max(keep))

Take(v, k) == IF Len(v) <= k THEN v ELSE SubSeq(v, 1, k)

\* the document and tag of the xml_get_field call
XDoc == CStr(xin.xml)
XTag == xin.tag

(***************************************************************************)
(* Properties of xml_get_field (SpecX)                                     *)
(***************************************************************************)
\* C3: a well-formed <tag>value</tag> pair, the tag in any letter case, with
\* an inner text shorter than the capacity: xml_get_field returns 1 and the
\* destination holds the inner text without leading and trailing whitespace.
C3_TrimmedInnerText ==
    (xpc = "done" /\ HasPair(XDoc, XTag) /\ Len(InnerText(XDoc, XTag)) < xin.buflen)
        => /\ xout.ret = 1
           /\ CStr(xout.buf) = Trimmed(InnerText(XDoc, XTag))

C3_Witness ==
    /\ xpc = "done"
    /\ HasPair(XDoc, XTag)
    /\ Len(InnerText(XDoc, XTag)) < xin.buflen
    /\ \A i \in Opens(XDoc, XTag) : SubSeq(XDoc, i + 2, i + 1 + Len(XTag)) # XTag
    /\ Trimmed(InnerText(XDoc, XTag)) \notin {<< >>, InnerText(XDoc, XTag)}
    /\ CStr(xout.buf) = Trimmed(InnerText(XDoc, XTag))

\* C4: the opening tag occurs and no closing tag follows it: xml_get_field
\* returns 0 and writes nothing to the destination, which stays the empty
\* string, rendered as "-".
C4_NoClosingTag ==
    (xpc = "done" /\ Opens(XDoc, XTag) # {} /\ Closes(XDoc, XTag) = {})
        => /\ xout.ret = 0
           /\ xout.wr = {}
           /\ xout.buf = xin.buf
           /\ xout.buf[1] = 0
           /\ render(xout.buf) = S_dash

C4_Witness ==
    /\ xpc = "done"
    /\ Opens(XDoc, XTag) # {}
    /\ Closes(XDoc, XTag) = {}
    /\ Occurrences(XDoc, <<60, 47>> \o XTag \o <<62>>, 0) # {}
    /\ xout.ret = 0

\* C5: xml_get_field reads and writes the destination at indices
\* 0 .. capacity-1 only and leaves a string of at most capacity-1 bytes in it.
C5_DestinationBounded ==
    xpc = "done"
        => /\ xin.buflen \in {16, 32, 64}
           /\ Len(xout.buf) = xin.buflen
           /\ xout.acc \subseteq 0..(xin.buflen - 1)
           /\ \E k \in 1..xin.buflen : xout.buf[k] = 0

C5_Witness ==
    /\ xpc = "done"
    /\ xout.ret = 1
    /\ HasPair(XDoc, XTag)
    /\ Len(InnerText(XDoc, XTag)) > xin.buflen
    /\ Len(CStr(xout.buf)) = xin.buflen - 1
    /\ (xin.buflen - 1) \in xout.wr

\* C6: the destination holds the trimmed inner text, cut to capacity-1 bytes
\* when it is longer.
C6_TrimThenTruncate ==
    (xpc = "done" /\ HasPair(XDoc, XTag))
        => /\ xout.ret = 1
           /\ CStr(xout.buf) = Take(Trimmed(InnerText(XDoc, XTag)), xin.buflen - 1)

(***************************************************************************)
(* Properties of process_datagram and main (Spec)                          *)
(***************************************************************************)
\* process_datagram has just returned
Done == pc = "recvfrom" /\ n >= 0 /\ received # << >> /\ Len(processed) = Len(received)

LastRx == received[Len(received)]

\* the datagram's bytes hold <contactinfo> in some letter case
HasMarker(d) == Occurrences(d, S_contactinfo, 0) # {}

SameIgnoringCase(v, w) ==
    Len(v) = Len(w) /\ \A k \in 1..Len(v) : Fold(v[k]) = Fold(w[k])

\* the trigger rule on the extracted values
Trigger ==
    /\ \E f \in {"mult1", "mult2", "mult3"} : CStr(fields[f]) # << >>
    /\ SameIgnoringCase(CStr(fields.newqso), S_true)

Positions(es, e) == {i \in 1..Len(es) : es[i] = e}

C2_SilentReject ==
    (Done /\ ~HasMarker(LastRx.data))
        => /\ events = << >>
           /\ line = << >>
           /\ rets = NoRets
           /\ fields = NoFields

C2_Witness ==
    /\ Done
    /\ Len(LastRx.data) < 13
    /\ Len(received) >= 2
    /\ HasMarker(received[1].data)
    /\ events = << >>

\* C7: for a datagram that holds <contactinfo> and whose copy is allocated,
\* one log line is printed and the newline is the last thing done; when the
\* trigger holds the order is line, marker, play_sound, newline, also when
\* play_sound fails.
C7_LineCompletes ==
    (Done /\ HasMarker(LastRx.data) /\ Count(events, "perror") = 0)
        => /\ Count(events, "printf") = 1
           /\ Count(events, "newline") = 1
           /\ events[Len(events)] = "newline"
           /\ Count(events, "marker") = (IF Trigger THEN 1 ELSE 0)
           /\ Count(events, "play_sound") = (IF Trigger THEN 1 ELSE 0)
           /\ \A i \in Positions(events, "marker") :
                 /\ \A j \in Positions(events, "printf") : j < i
                 /\ \A j \in Positions(events, "play_sound") : i < j
           /\ \A i \in Positions(events, "play_sound") \cup Positions(events, "warning") :
                 i < Len(events)

C7_Witness ==
    /\ Done
    /\ HasMarker(LastRx.data)
    /\ Count(events, "warning") = 1
    /\ events[Len(events)] = "newline"

\* what holds of the loop in every state, and of every step it takes
C8_LoopState ==
    /\ pc = "process" => Len(received) = Len(processed) + 1
    /\ pc = "recvfrom" => Len(received) = Len(processed)
    /\ \A i \in 1..Len(processed) :
          i <= Len(received) /\ processed[i].data = received[i].data
                             /\ processed[i].src = received[i].src

C8_LoopStep ==
    /\ pc \in {"recvfrom", "process"} => pc' \in {"recvfrom", "process"}
    /\ pc = "process" =>
          /\ pc' = "recvfrom"
          /\ received' = received
          /\ Len(processed') = Len(processed) + 1
          /\ SubSeq(processed', 1, Len(processed)) = processed
    /\ pc = "recvfrom" =>
          /\ processed' = processed
          /\ events' = events
          /\ n' < 0 => (pc' = "recvfrom" /\ received' = received /\ buf' = buf)
          /\ n' >= 0 => (pc' = "process" /\ Len(received') = Len(received) + 1)

\* C8: once socket and bind have succeeded main never leaves its loop; every
\* delivered datagram is processed once, as received and in the order
\* received, before the next recvfrom; a failed recvfrom is followed by the
\* next recvfrom with nothing processed and nothing changed.
C8_ListenerLoop == [](C8_LoopState) /\ [][C8_LoopStep]_vars

C8_Witness ==
    /\ pc = "recvfrom"
    /\ n = -1
    /\ Len(processed) >= 2
    /\ processed[1].data # processed[2].data

\* C9: what process_datagram does with a datagram is what it does with that
\* datagram's own bytes and sender in a buffer that holds nothing else; the
\* same datagram processed twice plays the sound both times or neither.
C9_NoCrossDatagramState ==
    /\ Done =>
          [events |-> events, fields |-> fields, rets |-> rets, line |-> line]
              \in process_datagram(LastRx.data, Len(LastRx.data), LastRx.src)
    /\ \A i, j \in 1..Len(processed) :
          ( /\ i <= Len(received) /\ j <= Len(received)
            /\ received[i] = received[j]
            /\ Count(processed[i].events, "perror") = 0
            /\ Count(processed[j].events, "perror") = 0 )
          => Count(processed[i].events, "play_sound")
               = Count(processed[j].events, "play_sound")

C9_Witness ==
    /\ Done
    /\ Len(received) >= 2
    /\ Len(received[2].data) < Len(received[1].data)
    /\ Len(buf) > n
    /\ ~HasMarker(received[2].data)
    /\ HasMarker(SubSeq(buf, 1, Len(received[2].data) + 2))
    /\ events = << >>

\* C10: for a datagram that holds <contactinfo>, a <tag>value</tag> pair at
\* any offset of the datagram's bytes is extracted.
C10_ExtractsAnywhere ==
    (Done /\ HasMarker(LastRx.data) /\ Count(events, "perror") = 0)
        => \A f \in FieldSet :
              HasPair(LastRx.data, TagOf[f]) => rets[f] = 1

=============================================================================
